---- MODULE Spec2Model ----
(***************************************************************************)
(* Inverse Boggle (src/Uninformed/search.py, lines 574-785): the Wordlist  *)
(* dictionary, the boggle_neighbors adjacency table, the BoggleFinder word *)
(* search and boggle_hill_climbing.                                        *)
(*                                                                         *)
(* A Python str is a sequence of one-character strings; Python's 0-based   *)
(* list index k is the TLA+ sequence index k + 1.  An Optional value is    *)
(* None (the empty sequence) or Some(v) (the one-element sequence).        *)
(***************************************************************************)
EXTENDS Integers, Sequences, FiniteSets, TLC

VARIABLES
    pc,         \* where the driving program is
    file,       \* Wordlist.__init__: the tokens of file.read().split()
    min_len,    \* Wordlist.__init__: its min_len argument
    words,      \* Wordlist.words
    bounds,     \* Wordlist.bounds
    ret,        \* the last call of the program under study and what it returned
    cache,      \* boggle_neighbors: its cache={} default argument
    board,      \* the board list (BoggleFinder.board is the same list object)
    neighbors,  \* BoggleFinder.neighbors
    found,      \* BoggleFinder.found (its keys)
    best,       \* boggle_hill_climbing: best
    ntimes,     \* boggle_hill_climbing: ntimes
    iter,       \* boggle_hill_climbing: iterations of the for loop done
    hist,       \* history of the run: what the claims compare the state with
    stack,      \* the calls of set_board and find in progress, innermost last
    visited_path  \* find: the list visited, one object for a whole recursion

vars == <<pc, file, min_len, words, bounds, ret, cache, board, neighbors,
          found, best, ntimes, iter, hist, stack, visited_path>>

(***************************************************************************)
(* Characters and strings.                                                 *)
(***************************************************************************)
ALPHABET ==
    << "A", "B", "C", "D", "E", "F", "G", "H", "I", "J", "K", "L", "M",
       "N", "O", "P", "Q", "R", "S", "T", "U", "V", "W", "X", "Y", "Z" >>

\* The characters of code 65 ('A') to 122 ('z'), in code order (codes 92 and
\* 96, the backslash and the backquote, are written by name).
ASCII ==
    ALPHABET \o << "[", "backslash", "]", "^", "_", "backquote" >> \o
    << "a", "b", "c", "d", "e", "f", "g", "h", "i", "j", "k", "l", "m",
       "n", "o", "p", "q", "r", "s", "t", "u", "v", "w", "x", "y", "z" >>

ord(c) == 64 + (CHOOSE k \in 1..Len(ASCII) : ASCII[k] = c)

chr(n) == ASCII[n - 64]

None == << >>

Some(v) == << v >>

\* str.upper(): a lower-case letter becomes its capital, anything else stays.
upper(s) ==
    [k \in 1..Len(s) |->
        IF ord(s[k]) >= ord("a") /\ ord(s[k]) <= ord("z")
        THEN chr(ord(s[k]) - 32)
        ELSE s[k]]

\* Python's a < b on str: lexicographic by character code.
RECURSIVE StrLess(_, _)
StrLess(a, b) ==
    IF b = << >> THEN FALSE
    ELSE IF a = << >> THEN TRUE
    ELSE IF a[1] = b[1] THEN StrLess(Tail(a), Tail(b))
    ELSE ord(a[1]) < ord(b[1])

startswith(w, p) == Len(p) <= Len(w) /\ SubSeq(w, 1, Len(p)) = p

\* list.sort() on a list of str, as an insertion sort.
RECURSIVE InsertSorted(_, _)
InsertSorted(w, sorted) ==
    IF sorted = << >> THEN << w >>
    ELSE IF StrLess(w, sorted[1]) THEN << w >> \o sorted
    ELSE << sorted[1] >> \o InsertSorted(w, Tail(sorted))

RECURSIVE sort(_)
sort(ws) ==
    IF ws = << >> THEN << >>
    ELSE InsertSorted(ws[1], sort(Tail(ws)))

\* bisect.bisect(a, x) (bisect_right) on a[lo:hi].
RECURSIVE bisect_right(_, _, _, _)
bisect_right(a, x, lo, hi) ==
    IF lo < hi
    THEN LET mid == (lo + hi) \div 2
         IN  IF StrLess(x, a[mid + 1])
             THEN bisect_right(a, x, lo, mid)
             ELSE bisect_right(a, x, mid + 1, hi)
    ELSE lo

\* bisect.bisect_left(a, x, lo, hi).
RECURSIVE bisect_left(_, _, _, _)
bisect_left(a, x, lo, hi) ==
    IF lo < hi
    THEN LET mid == (lo + hi) \div 2
         IN  IF StrLess(a[mid + 1], x)
             THEN bisect_left(a, x, mid + 1, hi)
             ELSE bisect_left(a, x, lo, mid)
    ELSE lo

(***************************************************************************)
(* class Wordlist                                                          *)
(***************************************************************************)
SelectSeqLen(lines, m) ==
    LET Keep(w) == Len(w) >= m IN SelectSeq(lines, Keep)

\* Wordlist.__init__: the words kept, sorted.
WordlistWords(f, m) ==
    sort(SelectSeqLen([k \in 1..Len(f) |-> upper(f[k])], m))

\* Wordlist.__init__: bounds[c] for every c of ALPHABET.
WordlistBounds(ws) ==
    [c \in { ALPHABET[k] : k \in 1..Len(ALPHABET) } |->
        LET c2 == chr(ord(c) + 1)
        IN  << bisect_right(ws, << c >>, 0, Len(ws)),
               bisect_right(ws, << c2 >>, 0, Len(ws)) >>]

\* lookup with bisect.bisect in place of bisect.bisect_left: the position
\* after the words equal to prefix.
lookup_bisect_right(ws, prefix, lo, hi) ==
    LET h == IF hi = None THEN Len(ws) ELSE hi[1]
        i == bisect_right(ws, prefix, lo, h)
    IN  IF i < Len(ws) /\ startswith(ws[i + 1], prefix)
        THEN [pos |-> Some(i), is_word |-> (ws[i + 1] = prefix)]
        ELSE [pos |-> None, is_word |-> FALSE]

\* Wordlist.lookup(prefix, lo, hi); hi is None or Some(h).
lookup(ws, prefix, lo, hi) ==
    LET h == IF hi = None THEN Len(ws) ELSE hi[1]
        i == bisect_left(ws, prefix, lo, h)
    IN  IF i < Len(ws) /\ startswith(ws[i + 1], prefix)
        THEN [pos |-> Some(i), is_word |-> (ws[i + 1] = prefix)]
        ELSE [pos |-> None, is_word |-> FALSE]

\* Wordlist.__contains__(word).
contains(ws, word) == lookup(ws, word, 0, None).is_word

(***************************************************************************)
(* boggle_neighbors and exact_sqrt                                         *)
(***************************************************************************)
\* int(np.sqrt(n2))
IntSqrt(n2) == CHOOSE n \in 0..n2 : n * n <= n2 /\ n2 < (n + 1) * (n + 1)

\* exact_sqrt without its assertion: the integer part of the root.
exact_sqrt_no_assert(n2) == Some(IntSqrt(n2))

\* exact_sqrt(n2): Some(n), or None when the assertion n * n == n2 fails.
exact_sqrt(n2) ==
    LET n == IntSqrt(n2)
    IN  IF n * n = n2 THEN Some(n) ELSE None

When(b, s) == IF b THEN s ELSE << >>

\* The loop body without the test of on_right before i + 1: the right edge
\* wraps to the next row.
SquareNeighborsWrapRight(i, n, n2) ==
    LET on_top == i < n
        on_bottom == i >= n2 - n
        on_left == i % n = 0
        on_right == (i + 1) % n = 0
    IN  When(~on_top, << i - n >> \o When(~on_left, << i - n - 1 >>)
                                 \o When(~on_right, << i - n + 1 >>))
        \o When(~on_bottom, << i + n >> \o When(~on_left, << i + n - 1 >>)
                                       \o When(~on_right, << i + n + 1 >>))
        \o When(~on_left, << i - 1 >>)
        \o When(i + 1 < n2, << i + 1 >>)

\* The loop body without the test of on_left before i - n - 1.
SquareNeighborsUpLeft(i, n, n2) ==
    LET on_top == i < n
        on_bottom == i >= n2 - n
        on_left == i % n = 0
        on_right == (i + 1) % n = 0
    IN  When(~on_top, << i - n, i - n - 1 >> \o When(~on_right, << i - n + 1 >>))
        \o When(~on_bottom, << i + n >> \o When(~on_left, << i + n - 1 >>)
                                       \o When(~on_right, << i + n + 1 >>))
        \o When(~on_left, << i - 1 >>)
        \o When(~on_right, << i + 1 >>)

\* boggle_neighbors: the body of its loop, the list built for square i.
SquareNeighbors(i, n, n2) ==
    LET on_top == i < n
        on_bottom == i >= n2 - n
        on_left == i % n = 0
        on_right == (i + 1) % n = 0
    IN  When(~on_top, << i - n >> \o When(~on_left, << i - n - 1 >>)
                                 \o When(~on_right, << i - n + 1 >>))
        \o When(~on_bottom, << i + n >> \o When(~on_left, << i + n - 1 >>)
                                       \o When(~on_right, << i + n + 1 >>))
        \o When(~on_left, << i - 1 >>)
        \o When(~on_right, << i + 1 >>)

\* dict.get(n2): None when n2 is no key.
CacheGet(c, n2) == IF n2 \in DOMAIN c THEN Some(c[n2]) ELSE None

\* Python's truth value of what cache.get(n2) returns: a non-empty list.
Truthy(opt) == opt # None /\ opt[1] # << >>

\* boggle_neighbors(n2, cache): what it returns or that it raised, and the
\* cache it leaves.
boggle_neighbors(n2, c) ==
    IF Truthy(CacheGet(c, n2))
    THEN [raised |-> FALSE, value |-> c[n2], cache |-> c]
    ELSE LET n == exact_sqrt(n2)
         IN  IF n = None
             THEN [raised |-> TRUE, value |-> << >>, cache |-> c]
             ELSE LET table == [k \in 1..n2 |-> SquareNeighbors(k - 1, n[1], n2)]
                  IN  [raised |-> FALSE, value |-> table,
                       cache |-> [m \in DOMAIN c \cup {n2} |->
                                     IF m = n2 THEN table ELSE c[m]]]

(***************************************************************************)
(* class BoggleFinder                                                      *)
(***************************************************************************)
InList(x, s) == \E k \in 1..Len(s) : s[k] = x

\* The letters a square adds to the prefix: "if c == 'Q': c = 'QU'".
Letters(c) == IF c = "Q" THEN << "Q", "U" >> ELSE << c >>

\* BoggleFinder.find(lo, hi, i, visited, prefix) on the finder self
\* ([board, neighbors, words]): the keys the call sets in self.found (find
\* only ever adds keys, and reads none).  visited is as it was at the call
\* when find returns (the append is undone by the pop), so every call of the
\* loop over self.neighbors[i] gets the same list.
RECURSIVE find(_, _, _, _, _, _)

\* find without its first test, "if i in visited: return".
find_revisit(self, lo, hi, i, visited, prefix) ==
    LET r == lookup(self.words, prefix, lo, Some(hi))
    IN  IF r.pos # None
        THEN (IF r.is_word THEN {prefix} ELSE {})
             \cup UNION { find(self, r.pos[1], hi, self.neighbors[i + 1][k],
                               Append(visited, i),
                               prefix \o Letters(self.board[i + 1])) :
                          k \in 1..Len(self.neighbors[i + 1]) }
        ELSE {}

find(self, lo, hi, i, visited, prefix) ==
    IF InList(i, visited) THEN {}
    ELSE LET r == lookup(self.words, prefix, lo, Some(hi))
         IN  IF r.pos # None
             THEN (IF r.is_word THEN {prefix} ELSE {})
                  \cup UNION { find(self, r.pos[1], hi, self.neighbors[i + 1][k],
                                    Append(visited, i),
                                    prefix \o Letters(self.board[i + 1])) :
                               k \in 1..Len(self.neighbors[i + 1]) }
             ELSE {}

\* set_board: "self.found = {}" and the loop "for i in range(len(board))".
find_all(self, bnds) ==
    UNION { find(self, bnds[self.board[i + 1]][1], bnds[self.board[i + 1]][2],
                 i, << >>, << >>) : i \in 0..(Len(self.board) - 1) }

\* BoggleFinder.set_board(b) with the wordlist (ws, bnds), the finder's fields
\* nb and fnd and the neighbours cache c: the fields and the cache it leaves.
\* When boggle_neighbors raises, self.board is set and nothing else is.
set_board(b, ws, bnds, nb, fnd, c) ==
    LET r == boggle_neighbors(Len(b), c)
    IN  IF r.raised
        THEN [raised |-> TRUE, board |-> b, neighbors |-> nb, found |-> fnd,
              cache |-> c]
        ELSE [raised |-> FALSE, board |-> b, neighbors |-> r.value,
              found |-> find_all([board |-> b, neighbors |-> r.value,
                                  words |-> ws], bnds),
              cache |-> r.cache]

\* set_board without "self.found = {}".
KeepFound(fnd) == fnd

\* "self.found = {}"
ClearFound(fnd) == {}

\* find without its last statement.
pop_nothing(v) == v

\* "visited.pop()"
pop(v) == SubSeq(v, 1, Len(v) - 1)

\* The table one place to the right: scores[len(w) - 1] for scores[len(w)].
scores_shifted == << 0, 0, 0, 0, 0, 1, 2, 3, 5 >> \o [k \in 1..100 |-> 11]

\* BoggleFinder.scores
scores == << 0, 0, 0, 0, 1, 2, 3, 5 >> \o [k \in 1..100 |-> 11]

\* BoggleFinder.score(): the sum of scores[len(w)] over the found keys.
RECURSIVE score(_)
score(fnd) ==
    IF fnd = {} THEN 0
    ELSE LET w == CHOOSE x \in fnd : TRUE
         IN  scores[Len(w) + 1] + score(fnd \ {w})

\* BoggleFinder.__len__()
len(fnd) == Cardinality(fnd)

(***************************************************************************)
(* boggle_hill_climbing and mutate_boggle                                  *)
(***************************************************************************)
cubes16 ==
    << << "F", "O", "R", "I", "X", "B" >>,
       << "M", "O", "Q", "A", "B", "J" >>,
       << "G", "U", "R", "I", "L", "W" >>,
       << "S", "E", "T", "U", "P", "L" >>,
       << "C", "M", "P", "D", "A", "E" >>,
       << "A", "C", "I", "T", "A", "O" >>,
       << "S", "L", "C", "R", "A", "E" >>,
       << "R", "O", "M", "A", "S", "H" >>,
       << "N", "O", "D", "E", "S", "W" >>,
       << "H", "E", "F", "I", "Y", "E" >>,
       << "O", "N", "U", "D", "T", "K" >>,
       << "T", "E", "V", "I", "G", "N" >>,
       << "A", "N", "E", "D", "V", "Z" >>,
       << "P", "I", "N", "E", "S", "H" >>,
       << "A", "B", "I", "L", "Y", "T" >>,
       << "G", "K", "Y", "L", "E", "U" >> >>

\* mutate_boggle(board) when random.randrange draws i and the random.choice
\* calls draw the letter c: the board it leaves (it returns i and board[i]).
mutate_boggle(b, i, c) == [b EXCEPT ![i + 1] = c]

\* The else branch without the assignment.
KeepChange(b, i, oldc) == b

\* "board[i] = oldc  # Change back"
ChangeBack(b, i, oldc) == [b EXCEPT ![i + 1] = oldc]

(***************************************************************************)
(* Inputs of the checked runs.                                             *)
(***************************************************************************)
\* All lists of at most n elements of S.
ListsUpTo(S, n) == UNION { [1..k -> S] : k \in 0..n }

NoCall == [op |-> "none"]

\* Nothing has run yet.
NoHist == [run |-> "none"]

\* The tokens a word file is made of (as read: some in lower case).
FileTokens ==
    { << "A" >>, << "B" >>, << "A", "B" >>, << "a", "b" >>,
      << "C", "A", "T" >>, << "C", "A", "T", "S" >>, << "D", "O", "G" >> }

\* A word file holds at most this many tokens.
MaxFileWords == 3

\* The min_len arguments tried (3 is the default).
MinLens == { 1, 2, 3 }

\* The strings looked up.
Queries ==
    { << >>, << "A" >>, << "B" >>, << "A", "B" >>, << "a", "b" >>,
      << "C" >>, << "C", "A" >>, << "C", "A", "T" >>,
      << "C", "A", "T", "S" >>, << "D", "O", "G" >>, << "Z" >> }

(***************************************************************************)
(* SpecWordlist: a Wordlist is built from a file, then queried once (the   *)
(* Wordlist never changes after __init__, so one query per run shows all). *)
(***************************************************************************)
InitWordlist ==
    /\ pc = "start"
    /\ file = << >>
    /\ min_len = 3
    /\ words = << >>
    /\ bounds = << >>
    /\ ret = NoCall
    /\ cache = << >>
    /\ board = << >>
    /\ neighbors = << >>
    /\ found = {}
    /\ best = 0
    /\ ntimes = 0
    /\ iter = 0
    /\ hist = NoHist
    /\ stack = << >>
    /\ visited_path = << >>

\* Wordlist(f, m)
NewWordlist(f, m) ==
    /\ pc = "start"
    /\ pc' = "wordlist"
    /\ file' = f
    /\ min_len' = m
    /\ words' = WordlistWords(f, m)
    /\ bounds' = WordlistBounds(words')
    /\ UNCHANGED <<ret, cache, board, neighbors, found, best, ntimes, iter, hist,
                   stack, visited_path>>

\* wordlist.lookup(prefix, lo, hi)
Lookup(prefix, lo, hi) ==
    /\ pc = "wordlist"
    /\ pc' = "queried"
    /\ ret' = [op |-> "lookup", prefix |-> prefix, lo |-> lo, hi |-> hi,
               value |-> lookup(words, prefix, lo, hi)]
    /\ UNCHANGED <<file, min_len, words, bounds, cache, board, neighbors,
                   found, best, ntimes, iter, hist,
                   stack, visited_path>>

\* word in wordlist
Contains(word) ==
    /\ pc = "wordlist"
    /\ pc' = "queried"
    /\ ret' = [op |-> "contains", word |-> word, value |-> contains(words, word)]
    /\ UNCHANGED <<file, min_len, words, bounds, cache, board, neighbors,
                   found, best, ntimes, iter, hist,
                   stack, visited_path>>

\* (Each guard stands before its inputs, so that no input is drawn where the
\* call cannot happen.)
NextWordlist ==
    \/ /\ pc = "start"
       /\ \E f \in ListsUpTo(FileTokens, MaxFileWords), m \in MinLens :
             NewWordlist(f, m)
    \/ /\ pc = "wordlist"
       /\ \E prefix \in Queries, lo \in 0..Len(words) :
             \E hi \in { None } \cup { Some(h) : h \in lo..Len(words) } :
                Lookup(prefix, lo, hi)
    \/ /\ pc = "wordlist"
       /\ \E word \in Queries : Contains(word)

SpecWordlist == InitWordlist /\ [][NextWordlist]_vars

(***************************************************************************)
(* SpecNeighbors: boggle_neighbors is called for one size after another.   *)
(***************************************************************************)
\* The largest grid side whose table is asked for.
MaxSide == 4

InitNeighbors ==
    /\ pc = "neighbors"
    /\ file = << >>
    /\ min_len = 3
    /\ words = << >>
    /\ bounds = << >>
    /\ ret = NoCall
    /\ cache = << >>
    /\ board = << >>
    /\ neighbors = << >>
    /\ found = {}
    /\ best = 0
    /\ ntimes = 0
    /\ iter = 0
    /\ hist = NoHist
    /\ stack = << >>
    /\ visited_path = << >>

\* boggle_neighbors(n2)
BoggleNeighbors(n2) ==
    /\ pc = "neighbors"
    /\ LET r == boggle_neighbors(n2, cache)
       IN  /\ ret' = [op |-> "boggle_neighbors", n2 |-> n2,
                      raised |-> r.raised, value |-> r.value]
           /\ cache' = r.cache
    /\ hist' = [cache |-> cache]
    /\ UNCHANGED <<pc, file, min_len, words, bounds, board, neighbors, found,
                   best, ntimes, iter,
                   stack, visited_path>>

\* Sizes asked for beside those of the sides up to MaxSide: 25 squares, the
\* 5 * 5 grid, and 24 squares, no grid.
ExampleSizes == { 24, 25 }

NextNeighbors ==
    \E n2 \in 0..(MaxSide * MaxSide) \cup ExampleSizes : BoggleNeighbors(n2)

SpecNeighbors == InitNeighbors /\ [][NextNeighbors]_vars

(***************************************************************************)
(* SpecFinder: a BoggleFinder whose class wordlist was built from a file   *)
(* is given a board, and is then asked for its score or its length.        *)
(***************************************************************************)
\* The tokens of the finder's word file.
FinderTokens ==
    { << "A" >>, << "a", "t" >>, << "T", "A", "T" >>, << "Q", "U", "A" >>,
      << "C", "A", "T" >>, << "C", "A", "T", "S" >> }

\* The finder's word file holds at most this many tokens.
MaxFinderWords == 2

\* Every 1 * 1 and 2 * 2 board over BoardLetters is searched.
BoardLetters == { "A", "Q", "T" }

\* Boards searched beside those: the boards of the claims' examples and two
\* 3 * 3 boards.
OtherBoards ==
    { << "A", "T", "C", "S" >>, << "C", "A", "T", "S" >>,
      << "S", "Q", "A", "T", "T", "T", "T", "T", "T" >>,
      << "C", "A", "T", "S", "T", "A", "Q", "A", "T" >>,
      << "Q", "A", "R", "E", "S", "T", "T", "T", "E" >> }

FinderBoards ==
    [1..1 -> BoardLetters] \cup [1..4 -> BoardLetters] \cup OtherBoards

\* A word file of words of 3 to 9 letters, which the last board of
\* OtherBoards spells.
ScoreFiles ==
    { << << "R", "A", "T" >>, << "R", "A", "T", "S" >>,
         << "Q", "U", "A", "R", "T" >>, << "Q", "U", "A", "R", "T", "E" >>,
         << "Q", "U", "A", "R", "T", "E", "T" >>,
         << "Q", "U", "A", "R", "T", "E", "T", "S" >>,
         << "Q", "U", "A", "R", "T", "E", "T", "T", "E" >> >> }

\* BoggleFinder(): BoggleFinder.wordlist is the Wordlist of a file f and a
\* min_len m, self.found is {} and no board is set.
InitFinder ==
    /\ pc = "finder"
    /\ \E f \in ListsUpTo(FinderTokens, MaxFinderWords) \cup ScoreFiles,
          m \in MinLens :
          /\ file = f
          /\ min_len = m
          /\ words = WordlistWords(f, m)
          /\ bounds = WordlistBounds(WordlistWords(f, m))
    /\ ret = NoCall
    /\ cache = << >>
    /\ board = << >>
    /\ neighbors = << >>
    /\ found = {}
    /\ best = 0
    /\ ntimes = 0
    /\ iter = 0
    /\ hist = NoHist
    /\ stack = << >>
    /\ visited_path = << >>

\* finder.set_board(b)
SetBoard(b) ==
    /\ pc = "finder"
    /\ \E r \in { set_board(b, words, bounds, neighbors, found, cache) } :
           /\ pc' = IF r.raised THEN "raised" ELSE "searched"
           /\ board' = r.board
           /\ neighbors' = r.neighbors
           /\ found' = r.found
           /\ cache' = r.cache
    /\ ret' = [op |-> "set_board"]
    /\ UNCHANGED <<file, min_len, words, bounds, best, ntimes, iter, hist,
                   stack, visited_path>>

\* finder.score()
Score ==
    /\ pc = "searched"
    /\ pc' = "asked"
    /\ ret' = [op |-> "score", value |-> score(found)]
    /\ UNCHANGED <<file, min_len, words, bounds, cache, board, neighbors,
                   found, best, ntimes, iter, hist,
                   stack, visited_path>>

\* len(finder)
LenFinder ==
    /\ pc = "searched"
    /\ pc' = "asked"
    /\ ret' = [op |-> "len", value |-> len(found)]
    /\ UNCHANGED <<file, min_len, words, bounds, cache, board, neighbors,
                   found, best, ntimes, iter, hist,
                   stack, visited_path>>

NextFinder ==
    \/ /\ pc = "finder"
       /\ \E b \in FinderBoards : SetBoard(b)
    \/ Score
    \/ LenFinder

SpecFinder == InitFinder /\ [][NextFinder]_vars

(***************************************************************************)
(* SpecHill: boggle_hill_climbing(board, ntimes) with a finder whose class *)
(* wordlist was built, with the default min_len, from a file.  (A call's   *)
(* result r is bound by \E r \in { ... }, which computes it once.)         *)
(***************************************************************************)
SQUAT == << "S", "Q", "U", "A", "T" >>

\* The word files of the hill-climbing runs.
HillFiles ==
    { << << "C", "A", "T" >>, << "C", "A", "T", "S" >> >>,
      << SQUAT, << "C", "A", "T" >>, << "A", "C", "T" >> >>,
      << << "c", "a", "s", "t" >>, << "A", "C", "T" >>, << "a", "t" >> >> }

\* The boards the runs start from.
HillBoards ==
    { << "T", "A", "T", "S" >>, << "C", "A", "T", "S" >>,
      << "A", "A", "A", "A" >>, << "S" >>,
      << "S", "Q", "A", "T", "T", "T", "T", "T", "T" >> }

\* The faces of the cubes: what random.choice(random.choice(cubes16)) draws.
CubeFaces == { cubes16[k][f] : k \in 1..Len(cubes16), f \in 1..6 }

\* The letters drawn in the runs.
HillLetters == CubeFaces \cap { "A", "C", "S", "T" }

\* ntimes is at most this.
MaxNtimes == 2

\* finder = BoggleFinder()
InitHill ==
    /\ pc = "finder"
    /\ \E f \in HillFiles :
          /\ file = f
          /\ min_len = 3
          /\ words = WordlistWords(f, 3)
          /\ bounds = WordlistBounds(WordlistWords(f, 3))
    /\ ret = NoCall
    /\ cache = << >>
    /\ board = << >>
    /\ neighbors = << >>
    /\ found = {}
    /\ best = 0
    /\ ntimes = 0
    /\ iter = 0
    /\ hist = NoHist
    /\ stack = << >>
    /\ visited_path = << >>

\* boggle_hill_climbing(b, n) up to its loop:
\* "best = len(finder.set_board(board))".
HillStart(b, n) ==
    /\ pc = "finder"
    /\ \E r \in { set_board(b, words, bounds, neighbors, found, cache) } :
           /\ pc' = IF r.raised THEN "raised" ELSE "loop"
           /\ board' = r.board
           /\ neighbors' = r.neighbors
           /\ found' = r.found
           /\ cache' = r.cache
           /\ best' = IF r.raised THEN best ELSE len(r.found)
           /\ hist' = [board0 |-> b,
                       best0 |-> IF r.raised THEN best ELSE len(r.found)]
    /\ ntimes' = n
    /\ iter' = 0
    /\ UNCHANGED <<file, min_len, words, bounds, ret,
                   stack, visited_path>>

\* One iteration of the loop, mutate_boggle drawing the square i and the
\* letter c.  The board is one list: finder.board is the list the loop
\* mutates and changes back.
HillIterate(i, c) ==
    /\ pc = "loop"
    /\ iter < ntimes
    /\ \E r \in { set_board(mutate_boggle(board, i, c), words, bounds,
                            neighbors, found, cache) } :
          LET oldc == board[i + 1]
              new == len(r.found)
              touched == IF "touched" \in DOMAIN hist THEN hist.touched ELSE {}
          IN  /\ neighbors' = r.neighbors
              /\ found' = r.found
              /\ cache' = r.cache
              /\ IF new > best
                 THEN /\ best' = new
                      /\ board' = r.board
                 ELSE /\ best' = best
                      /\ board' = ChangeBack(r.board, i, oldc)
              /\ hist' = [board0 |-> hist.board0,
                          best0 |-> hist.best0,
                          prev |-> board, prevBest |-> best, square |-> i,
                          letter |-> c, new |-> new, accepted |-> (new > best),
                          touched |-> IF new > best THEN touched \cup {i}
                                      ELSE touched]
    /\ iter' = iter + 1
    /\ UNCHANGED <<pc, file, min_len, words, bounds, ret, ntimes,
                   stack, visited_path>>

\* "return board, best", after the loop.
HillReturn ==
    /\ pc = "loop"
    /\ iter = ntimes
    /\ pc' = "returned"
    /\ ret' = [op |-> "boggle_hill_climbing", board |-> board, best |-> best]
    /\ UNCHANGED <<file, min_len, words, bounds, cache, board, neighbors,
                   found, best, ntimes, iter, hist,
                   stack, visited_path>>

NextHill ==
    \/ /\ pc = "finder"
       /\ \E b \in HillBoards, n \in 0..MaxNtimes : HillStart(b, n)
    \/ /\ pc = "loop"
       /\ \E i \in 0..(Len(board) - 1), c \in HillLetters : HillIterate(i, c)
    \/ HillReturn

SpecHill == InitHill /\ [][NextHill]_vars

(***************************************************************************)
(* SpecSearch: one finder is given one board after another, and set_board  *)
(* and find run statement by statement.  stack holds the calls in          *)
(* progress: the call of set_board with i, the next square of its loop,    *)
(* and above it the calls of find, each with its arguments lo, hi, i and   *)
(* prefix, its local wordpos, k, the next place of its loop over           *)
(* self.neighbors[i], at, where it is ("entry" or "loop"), and entry, the  *)
(* list visited as it was at the call.                                     *)
(***************************************************************************)
\* The word files of the step-by-step searches.
SearchFiles ==
    { << << "C", "A", "T" >>, << "C", "A", "T", "S" >> >>,
      << << "a", "t" >>, << "T", "A", "T" >>, << "Q", "U", "A" >> >>,
      << << "A" >>, << "D", "O", "G" >> >> }

\* The boards given to the finder; the last one is no square.
SearchBoards ==
    { << "A" >>, << "A", "T", "C", "S" >>, << "C", "A", "T", "S" >>,
      << "Q", "A", "T", "T" >>, << "T", "A", "T", "T" >>,
      << "C", "A", "T", "S", "T", "A", "Q", "A", "T" >>,
      << "A", "T" >> }

\* The call on top of the stack.
Top == stack[Len(stack)]

\* The stack without its top.
Callers == SubSeq(stack, 1, Len(stack) - 1)

\* The stack with f in place of its top.
WithTop(f) == Append(Callers, f)

\* What the run did last: ev, with the list visited as it was when the call
\* that ev ends began (for "return") and the lookup made (None or Some).
Event(ev, entry, query) ==
    [prevBoard |-> hist.prevBoard, prevFound |-> hist.prevFound,
     event |-> ev, entry |-> entry, query |-> query]

\* The lookup a call of find makes: the string looked up and its range, for
\* the call's square i and argument prefix.
Query(f) ==
    Some([looked |-> f.prefix, lo |-> f.lo, hi |-> f.hi, i |-> f.i,
          prefix |-> f.prefix])

\* BoggleFinder(), the class wordlist being the Wordlist of a file f and a
\* min_len m.
InitSearch ==
    /\ pc = "finder"
    /\ \E f \in SearchFiles, m \in MinLens :
          /\ file = f
          /\ min_len = m
          /\ words = WordlistWords(f, m)
          /\ bounds = WordlistBounds(WordlistWords(f, m))
    /\ ret = NoCall
    /\ cache = << >>
    /\ board = << >>
    /\ neighbors = << >>
    /\ found = {}
    /\ best = 0
    /\ ntimes = 0
    /\ iter = 0
    /\ hist = [prevBoard |-> << >>, prevFound |-> {}, event |-> "none",
               entry |-> << >>, query |-> None]
    /\ stack = << >>
    /\ visited_path = << >>

\* finder.set_board(b) up to its loop; the finder is left as it is, but for
\* self.board, when boggle_neighbors raises.
SearchBegin(b) ==
    /\ pc \in { "finder", "searched", "raised" }
    /\ \E r \in { boggle_neighbors(Len(b), cache) } :
          /\ pc' = IF r.raised THEN "raised" ELSE "searching"
          /\ board' = b
          /\ neighbors' = IF r.raised THEN neighbors ELSE r.value
          /\ cache' = r.cache
          /\ found' = IF r.raised THEN found ELSE ClearFound(found)
          /\ stack' = IF r.raised THEN << >>
                      ELSE << [fn |-> "set_board", i |-> 0] >>
    /\ visited_path' = << >>
    /\ hist' = [prevBoard |-> board, prevFound |-> found, event |-> "begin",
                entry |-> << >>, query |-> None]
    /\ ret' = [op |-> "set_board"]
    /\ UNCHANGED <<file, min_len, words, bounds, best, ntimes, iter>>

\* "for i in range(len(board))": the call self.find(lo, hi, i, [], '').
SearchLoop ==
    /\ pc = "searching"
    /\ Len(stack) = 1
    /\ Top.i < Len(board)
    /\ stack' = << [fn |-> "set_board", i |-> Top.i + 1],
                   [fn |-> "find", lo |-> bounds[board[Top.i + 1]][1],
                    hi |-> bounds[board[Top.i + 1]][2], i |-> Top.i,
                    prefix |-> << >>, wordpos |-> None, k |-> 0,
                    at |-> "entry", entry |-> << >>] >>
    /\ visited_path' = << >>
    /\ hist' = Event("call", << >>, None)
    /\ UNCHANGED <<pc, file, min_len, words, bounds, ret, cache, board,
                   neighbors, found, best, ntimes, iter>>

\* "return self", after the loop.
SearchReturn ==
    /\ pc = "searching"
    /\ Len(stack) = 1
    /\ Top.i = Len(board)
    /\ pc' = "searched"
    /\ stack' = << >>
    /\ hist' = Event("done", << >>, None)
    /\ UNCHANGED <<file, min_len, words, bounds, ret, cache, board, neighbors,
                   found, best, ntimes, iter, visited_path>>

\* A call of find is at its first statement.
FindAtEntry == pc = "searching" /\ Len(stack) > 1 /\ Top.at = "entry"

\* A call of find is at its loop over self.neighbors[i].
FindAtLoop == pc = "searching" /\ Len(stack) > 1 /\ Top.at = "loop"

\* "if i in visited: return"
FindVisited ==
    /\ FindAtEntry
    /\ InList(Top.i, visited_path)
    /\ stack' = Callers
    /\ hist' = Event("return", Top.entry, None)
    /\ UNCHANGED <<pc, file, min_len, words, bounds, ret, cache, board,
                   neighbors, found, best, ntimes, iter, visited_path>>

\* The lookup gives no position: find returns.
FindPruned ==
    /\ FindAtEntry
    /\ ~InList(Top.i, visited_path)
    /\ lookup(words, Top.prefix, Top.lo, Some(Top.hi)).pos = None
    /\ stack' = Callers
    /\ hist' = Event("return", Top.entry, Query(Top))
    /\ UNCHANGED <<pc, file, min_len, words, bounds, ret, cache, board,
                   neighbors, found, best, ntimes, iter, visited_path>>

\* The lookup gives a position: the prefix is recorded if it is a word, i is
\* appended to visited and the square's letters to prefix.
FindDescend ==
    /\ FindAtEntry
    /\ ~InList(Top.i, visited_path)
    /\ \E r \in { lookup(words, Top.prefix, Top.lo, Some(Top.hi)) } :
          /\ r.pos # None
          /\ found' = IF r.is_word THEN found \cup { Top.prefix } ELSE found
          /\ stack' = WithTop([Top EXCEPT
                                  !.wordpos = r.pos,
                                  !.prefix = Top.prefix
                                             \o Letters(board[Top.i + 1]),
                                  !.at = "loop"])
    /\ visited_path' = Append(visited_path, Top.i)
    /\ hist' = Event("descend", Top.entry, Query(Top))
    /\ UNCHANGED <<pc, file, min_len, words, bounds, ret, cache, board,
                   neighbors, best, ntimes, iter>>

\* "for j in self.neighbors[i]": the call self.find(wordpos, hi, j, visited,
\* prefix).
FindLoop ==
    /\ FindAtLoop
    /\ Top.k < Len(neighbors[Top.i + 1])
    /\ stack' = Append(WithTop([Top EXCEPT !.k = Top.k + 1]),
                       [fn |-> "find", lo |-> Top.wordpos[1], hi |-> Top.hi,
                        i |-> neighbors[Top.i + 1][Top.k + 1],
                        prefix |-> Top.prefix, wordpos |-> None, k |-> 0,
                        at |-> "entry", entry |-> visited_path])
    /\ hist' = Event("call", visited_path, None)
    /\ UNCHANGED <<pc, file, min_len, words, bounds, ret, cache, board,
                   neighbors, found, best, ntimes, iter, visited_path>>

\* After the loop: "visited.pop()", and find returns.
FindPop ==
    /\ FindAtLoop
    /\ Top.k = Len(neighbors[Top.i + 1])
    /\ visited_path' = pop(visited_path)
    /\ stack' = Callers
    /\ hist' = Event("return", Top.entry, None)
    /\ UNCHANGED <<pc, file, min_len, words, bounds, ret, cache, board,
                   neighbors, found, best, ntimes, iter>>

NextSearch ==
    \/ /\ pc \in { "finder", "searched", "raised" }
       /\ \E b \in SearchBoards : SearchBegin(b)
    \/ SearchLoop
    \/ SearchReturn
    \/ FindVisited
    \/ FindPruned
    \/ FindDescend
    \/ FindLoop
    \/ FindPop

SpecSearch == InitSearch /\ [][NextSearch]_vars

(***************************************************************************)
(* The claims about the Wordlist, under SpecWordlist.                      *)
(***************************************************************************)
CAT == << "C", "A", "T" >>

CATS == << "C", "A", "T", "S" >>

DOG == << "D", "O", "G" >>

\* The dictionary's word list as the file and min_len define it: the tokens
\* of at least min_len characters, in upper case.
InDictionary(p) ==
    \E k \in 1..Len(file) : Len(file[k]) >= min_len /\ upper(file[k]) = p

\* A lookup over the whole list: lo = 0 and hi left out or len(words).
FullRange == ret.lo = 0 /\ ret.hi \in { None, Some(Len(words)) }

\* The limit hi of the last lookup.
RetHi == IF ret.hi = None THEN Len(words) ELSE ret.hi[1]

\* The indices of [lo, hi) of the last lookup whose word starts with prefix.
Matches == { i \in ret.lo..(RetHi - 1) : startswith(words[i + 1], ret.prefix) }

\* C4: lookup(P, lo, hi) with 0 <= lo <= hi <= W returns position None when
\* no word at an index of [lo, hi) starts with P (also when the range is empty
\* or the only matching words lie at hi or after), and otherwise the smallest
\* index of [lo, hi) whose word starts with P.
C4_LookupLeftmostInRange ==
    ret.op = "lookup" =>
        IF Matches = {}
        THEN ret.value.pos = None
        ELSE /\ ret.value.pos # None
             /\ ret.value.pos[1] \in Matches
             /\ \A i \in Matches : ret.value.pos[1] <= i

\* C5: a lookup of P over the whole list reports is_exact_word exactly when P
\* is a word of the dictionary (the tokens of at least min_len characters, in
\* upper case), and "P in wordlist" is that flag; with the words CAT, CATS,
\* DOG, lookup('CA') gives a position and no exact word, lookup('CAT') an
\* exact word.
C5_ExactWordIffMember ==
    /\ (ret.op = "lookup" /\ FullRange) =>
           /\ ret.value.is_word <=> InDictionary(ret.prefix)
           /\ (words = << CAT, CATS, DOG >> /\ ret.prefix = << "C", "A" >>) =>
                  ret.value.pos # None /\ ~ret.value.is_word
           /\ (words = << CAT, CATS, DOG >> /\ ret.prefix = CAT) =>
                  ret.value.is_word
    /\ ret.op = "contains" => (ret.value <=> InDictionary(ret.word))

\* Reached: 'CAT' is looked up over the whole of CAT, CATS, DOG, read from a
\* file that lists them in another order, and is reported an exact word.
C5_Witness ==
    /\ ret.op = "lookup"
    /\ FullRange
    /\ file = << DOG, CATS, CAT >>
    /\ words = << CAT, CATS, DOG >>
    /\ ret.prefix = CAT
    /\ ret.value = [pos |-> Some(0), is_word |-> TRUE]

\* C6: after construction with any min_len (1 included), for every letter c
\* of A..Z the words at the indices lo..hi-1 of bounds[c] are exactly the
\* words whose first character is c.
C6_BoundsAreLetterSlice ==
    pc # "start" =>
        \A c \in DOMAIN bounds :
            \A k \in 0..(Len(words) - 1) :
                (bounds[c][1] <= k /\ k < bounds[c][2]) <=> (words[k + 1][1] = c)

(***************************************************************************)
(* The claims about boggle_neighbors, under SpecNeighbors.                 *)
(***************************************************************************)
Abs(x) == IF x < 0 THEN 0 - x ELSE x

\* Squares i and j of a grid of side n are a king's move apart.
KingMove(i, j, n) ==
    /\ j # i
    /\ Abs((j \div n) - (i \div n)) <= 1
    /\ Abs((j % n) - (i % n)) <= 1

\* The last call returned the table of an n * n grid, n >= 1.
ReturnedTable == ret.op = "boggle_neighbors" /\ ~ret.raised /\ ret.n2 >= 1

\* C9: for every n >= 1 and every square i of an n * n grid, the list
\* boggle_neighbors(n * n)[i] holds exactly the squares a king's move from i,
\* each once, all within 0..n*n-1.
C9_NeighborsAreKingMoves ==
    ReturnedTable =>
        LET n == IntSqrt(ret.n2)
        IN  /\ Len(ret.value) = ret.n2
            /\ \A i \in 0..(ret.n2 - 1) :
                  LET js == ret.value[i + 1]
                  IN  /\ \A k \in 1..Len(js) : js[k] \in 0..(ret.n2 - 1)
                      /\ \A k1, k2 \in 1..Len(js) : js[k1] = js[k2] => k1 = k2
                      /\ \A j \in 0..(ret.n2 - 1) :
                            InList(j, js) <=> KingMove(i, j, n)

\* Reached: the table of the 3 * 3 grid, whose centre has eight neighbours
\* and whose corner 2 has three.
C9_Witness ==
    /\ ReturnedTable
    /\ ret.n2 = 9
    /\ ret.value[5] = << 1, 0, 2, 7, 6, 8, 3, 5 >>
    /\ ret.value[3] = << 5, 4, 1 >>

\* C10: for all squares i, j of the grid, j is in neighbors(i) exactly when i
\* is in neighbors(j).
C10_NeighborsSymmetric ==
    ReturnedTable =>
        \A i, j \in 0..(ret.n2 - 1) :
            InList(j, ret.value[i + 1]) <=> InList(i, ret.value[j + 1])

\* Reached: a table taken from the cache in which square 6 and square 4 of
\* the 3 * 3 grid name each other.
C10_Witness ==
    /\ ReturnedTable
    /\ ret.n2 = 9
    /\ 9 \in DOMAIN hist.cache
    /\ InList(4, ret.value[7])
    /\ InList(6, ret.value[5])

\* n2 is the number of squares of a grid of some side n >= 0.
PerfectSquare(n2) == \E n \in 0..n2 : n * n = n2

\* C11: boggle_neighbors(n2) succeeds when n2 is a perfect square (25, say)
\* and raises when it is not (24, say); it raises before any table is made
\* or stored: a failed call returns no table and leaves the cache as it was.
C11_NonSquareSizeRaises ==
    ret.op = "boggle_neighbors" =>
        /\ ret.raised <=> ~PerfectSquare(ret.n2)
        /\ ret.raised => (ret.value = << >> /\ cache = hist.cache)
        /\ ~ret.raised =>
               /\ Len(ret.value) = ret.n2
               /\ ret.n2 \in DOMAIN cache
               /\ cache[ret.n2] = ret.value
        /\ ret.n2 = 25 => ~ret.raised
        /\ ret.n2 = 24 => ret.raised

\* Reached: after the table of 25 squares has been built and stored, the
\* call for 24 squares raises and the cache still holds the table of 25.
C11_Witness ==
    /\ ret.op = "boggle_neighbors"
    /\ ret.n2 = 24
    /\ ret.raised
    /\ 25 \in DOMAIN hist.cache
    /\ Len(hist.cache[25]) = 25
    /\ cache = hist.cache

(***************************************************************************)
(* The claims about the word finder, under SpecFinder.                     *)
(***************************************************************************)
\* What a square of letter c spells: Q spells QU.
Spells(c) == IF c = "Q" THEN << "Q", "U" >> ELSE << c >>

\* The word w is spelt by a path of king's moves over the board b that starts
\* on square i and enters no square of used, nor any square twice.
RECURSIVE TraceFrom(_, _, _, _)
TraceFrom(b, w, i, used) ==
    /\ startswith(w, Spells(b[i + 1]))
    /\ LET rest == SubSeq(w, Len(Spells(b[i + 1])) + 1, Len(w))
       IN  \/ rest = << >>
           \/ \E j \in (0..(Len(b) - 1)) \ (used \cup {i}) :
                 /\ KingMove(i, j, IntSqrt(Len(b)))
                 /\ TraceFrom(b, rest, j, used \cup {i})

Traceable(b, w) == \E i \in 0..(Len(b) - 1) : TraceFrom(b, w, i, {})

\* set_board has returned.
Searched == pc \in { "searched", "asked" }

\* C1: after set_board(G), every word of the dictionary that a simple path of
\* king's moves spells on G (a Q square spelling QU) is in the found words,
\* also when the path takes every square of the grid or ends on a square with
\* no unvisited neighbour.
C1_EveryTraceableWordFound ==
    Searched =>
        \A k \in 1..Len(words) :
            Traceable(board, words[k]) => words[k] \in found

\* C2: after set_board(G), every found word is a word of the dictionary and
\* is spelt by a simple path of king's moves on G (a Q square spelling QU).
C2_FoundWordsAreTraceableWords ==
    \A w \in found : InList(w, words) /\ Traceable(board, w)

\* Reached: QUA and AT are found on the board Q A / T T, the Q square being
\* one square of the path of QUA.
C2_Witness ==
    /\ Searched
    /\ board = << "Q", "A", "T", "T" >>
    /\ found = { << "Q", "U", "A" >>, << "A", "T" >> }

\* The found words of n letters, and of n letters or more.
FoundOfLen(n) == { w \in found : Len(w) = n }

FoundOfLenFrom(n) == { w \in found : Len(w) >= n }

\* C12: score() is the sum, over the distinct found words, of the points of
\* the word's length: 0 for 0 to 3 letters, 1 for 4, 2 for 5, 3 for 6, 5 for 7
\* and 11 for 8 or more; a word counts once however many paths spell it, so
\* the found words CAT, CATS score 1.
C12_ScoreIsSumOfPoints ==
    ret.op = "score" =>
        /\ ret.value = 1 * Cardinality(FoundOfLen(4))
                        + 2 * Cardinality(FoundOfLen(5))
                        + 3 * Cardinality(FoundOfLen(6))
                        + 5 * Cardinality(FoundOfLen(7))
                        + 11 * Cardinality(FoundOfLenFrom(8))
        /\ found = { CAT, CATS } => ret.value = 1

\* Reached: a board on which words of 3, 4, 5, 6, 7, 8 and 9 letters are
\* found scores 0 + 1 + 2 + 3 + 5 + 11 + 11.
C12_Witness ==
    /\ ret.op = "score"
    /\ board = << "Q", "A", "R", "E", "S", "T", "T", "T", "E" >>
    /\ \A n \in 3..9 : Cardinality(FoundOfLen(n)) = 1
    /\ Cardinality(found) = 7
    /\ ret.value = 33

\* Reached: the found words are CAT and CATS, and the score is 1.
C12_WitnessCats ==
    /\ ret.op = "score"
    /\ found = { CAT, CATS }
    /\ ret.value = 1

(***************************************************************************)
(* The claims about set_board and find step by step, under SpecSearch.     *)
(***************************************************************************)
\* The found words of a new finder, with an empty neighbours cache, that is
\* given the board b.
FreshFound(b) ==
    find_all([board |-> b, neighbors |-> boggle_neighbors(Len(b), << >>).value,
              words |-> words], bounds)

\* C13: whatever set_board calls the finder has had, the found words after
\* set_board(G) depend only on G and the dictionary: they are those of a new
\* finder given G, with no word left over from an earlier board; so a second
\* call on an unchanged grid gives the same found words.
C13_FoundDependsOnBoardOnly ==
    pc = "searched" =>
        /\ found = FreshFound(board)
        /\ hist.prevBoard = board => found = hist.prevFound

\* Reached: set_board has returned on a board on which words are found, after
\* an earlier board whose found words include one not found on this board.
C13_Witness ==
    /\ pc = "searched"
    /\ found # {}
    /\ hist.prevFound \ found # {}
    /\ hist.prevBoard # board

\* Reached: set_board has returned a second time on an unchanged board on
\* which words are found.
C13_WitnessTwice ==
    /\ pc = "searched"
    /\ found # {}
    /\ hist.prevBoard = board

\* No square is twice in the list v.
NoRepeat(v) == \A k1, k2 \in 1..Len(v) : v[k1] = v[k2] => k1 = k2

\* C14: at every point of a search the visit path holds no square twice, its
\* consecutive squares are a king's move apart and it is at most n * n long;
\* and when a call of find returns, the visit path is as it was when the call
\* was entered.
C14_VisitPathIsSimplePath ==
    /\ NoRepeat(visited_path)
    /\ \A k \in 1..(Len(visited_path) - 1) :
          KingMove(visited_path[k], visited_path[k + 1], IntSqrt(Len(board)))
    /\ Len(visited_path) <= Len(board)
    /\ hist.event = "return" => visited_path = hist.entry

\* Reached: on a 3 * 3 board a call of find that had appended its square to
\* a path of three squares returns, the path being those three squares again.
C14_Witness ==
    /\ pc = "searching"
    /\ Len(board) = 9
    /\ hist.event = "return"
    /\ hist.query = None
    /\ Len(visited_path) = 3
    /\ visited_path = hist.entry
    /\ Top.at = "loop"
    /\ Top.k > 0

\* The letters along the squares of the list v.
RECURSIVE PathLetters(_)
PathLetters(v) ==
    IF v = << >> THEN << >>
    ELSE Spells(board[v[1] + 1]) \o PathLetters(Tail(v))

\* C15: a call of find on an unvisited square i with the prefix p looks up
\* p + letter_at(i) over [lo, hi); it goes on (appends i to the visit path
\* and calls find on the neighbours) only if a word of the range starts with
\* that string, and returns at once otherwise; so the letters along the visit
\* path are always a prefix of a word of the dictionary.
C15_PrunedBeforePush ==
    /\ hist.query # None =>
           LET q == hist.query[1]
               asked == q.prefix \o Spells(board[q.i + 1])
           IN  /\ q.looked = asked
               /\ hist.event = "descend" <=>
                      \E k \in q.lo..(q.hi - 1) : startswith(words[k + 1], asked)
    /\ \E k \in 1..Len(words) : startswith(words[k], PathLetters(visited_path))

(***************************************************************************)
(* The claims about boggle_hill_climbing, under SpecHill.                  *)
(***************************************************************************)
\* The found words of a search of the board b.
FoundOn(b) == set_board(b, words, bounds, neighbors, found, cache).found

\* The loop has been reached.
Climbing == pc \in { "loop", "returned" }

\* C3: the optimizer returns (final_grid, final_score) with final_score the
\* point total, by word length, of the words found on final_grid; best_score
\* starts as, and stays, that total of the grid (and no other measure, such as
\* the number of words found).
C3_BestIsScoreOfGrid ==
    /\ Climbing => best = score(FoundOn(board))
    /\ pc = "returned" => ret.best = score(FoundOn(ret.board))

\* C7: an iteration whose mutation is rejected leaves the grid, square for
\* square, as it was at the start of the iteration; so the grid differs from
\* the initial grid only on squares changed by accepted mutations.
C7_RejectedMutationRolledBack ==
    (Climbing /\ iter > 0) =>
        /\ ~hist.accepted => board = hist.prev
        /\ \A k \in 1..Len(board) :
              board[k] # hist.board0[k] => (k - 1) \in hist.touched

\* Reached: after an accepted mutation, a mutation that changes a letter is
\* rejected, and the grid, which differs from the initial one, is as before.
C7_Witness ==
    /\ Climbing
    /\ iter = 2
    /\ ~hist.accepted
    /\ hist.letter # hist.prev[hist.square + 1]
    /\ hist.touched # {}
    /\ board # hist.board0
    /\ board = hist.prev

\* C8: best_score after an iteration is at least best_score before it, and
\* the returned score is at least the score (the point total of the found
\* words) of the initial grid.
C8_BestNeverDecreases ==
    /\ (Climbing /\ iter > 0) => best >= hist.prevBest
    /\ pc = "returned" => ret.best >= score(FoundOn(hist.board0))

\* C16: in each iteration the mutated square keeps its new letter and
\* best_score becomes the new score (the point total of the words found on
\* the mutated grid) exactly when the new score is strictly greater than
\* best_score; when it is equal or lower, the old letter is put back and
\* best_score is unchanged.
C16_StrictGreedyAcceptance ==
    (Climbing /\ iter > 0) =>
        LET mutated == mutate_boggle(hist.prev, hist.square, hist.letter)
            newScore == score(FoundOn(mutated))
        IN  IF newScore > hist.prevBest
            THEN board = mutated /\ best = newScore
            ELSE board = hist.prev /\ best = hist.prevBest

====
